---------------------------- MODULE Spec2Model ----------------------------
(***************************************************************************)
(* A model of bytecomp.py: a byte-compiler from a small Python AST to      *)
(* CPython bytecode.  Byte strings are sequences of integers; the byte at  *)
(* Python offset i is element i+1 of the sequence.                         *)
(***************************************************************************)
EXTENDS Integers, Sequences, FiniteSets, TLC

VARIABLES
    tree,        \* the ast.Module handed to bytecomp
    phase,       \* which step of the modelled run has been taken
    artifact,    \* what CodeGen().compile(tree) returned: [ok, co]
    table,       \* one make_table() dictionary, as its items in insertion order
    requested,   \* the keys looked up in table so far, in order
    returned,    \* the index each of those lookups returned
    collected,   \* the last result of collect(table)
    arg,         \* an instruction argument handed to take_arg
    enc,         \* the result of take_arg(opcode)(arg)
    stream,      \* a byte string handed to fix_jumps
    fixed,       \* the result of fix_jumps(stream)
    pc,          \* the interpreter's byte offset into co_code
    depth,       \* the interpreter's evaluation stack depth
    blocks,      \* the interpreter's block stack: the depth at each SETUP_LOOP
    iters        \* how many backward jumps the interpreter has taken

vars == <<tree, phase, artifact, table, requested, returned, collected,
          arg, enc, stream, fixed, pc, depth, blocks, iters>>

---------------------------------------------------------------------------
(* Opcode numbers, read from dis.opmap by the loop at lines 29-31.         *)
POP_TOP == 1
DUP_TOP == 4
BINARY_POWER == 19
BINARY_MULTIPLY == 20
BINARY_MODULO == 22
BINARY_ADD == 23
BINARY_SUBTRACT == 24
BINARY_FLOOR_DIVIDE == 26
BINARY_TRUE_DIVIDE == 27
BINARY_LSHIFT == 62
BINARY_RSHIFT == 63
BINARY_AND == 64
BINARY_XOR == 65
BINARY_OR == 66
RETURN_VALUE == 83
POP_BLOCK == 87
HAVE_ARGUMENT == 90
STORE_NAME == 90
LOAD_CONST == 100
LOAD_NAME == 101
JUMP_FORWARD == 110
JUMP_ABSOLUTE == 113
POP_JUMP_IF_FALSE == 114
SETUP_LOOP == 120
CALL_FUNCTION == 131
MAKE_FUNCTION == 132
JUMP_BACK == 255
(* dis.hasjabs: the opcodes whose argument is an absolute address.         *)
hasjabs == {111, 112, JUMP_ABSOLUTE, POP_JUMP_IF_FALSE, 115, 119}

---------------------------------------------------------------------------
(* Python values that can be a dictionary key or a constant.               *)
IntV(n) == [t |-> "int", v |-> n]
FloatV(n) == [t |-> "float", v |-> n]      \* the float n.0
BoolV(n) == [t |-> "bool", v |-> n]        \* False is 0, True is 1
StrV(s) == [t |-> "str", s |-> s]
NoneV == [t |-> "NoneType"]
NumericTypes == {"int", "float", "bool"}

RECURSIVE PyEq(_, _)
(* The host's == on two values, which is what a dict compares keys with:   *)
(* numbers compare by value across int, float and bool; code objects       *)
(* compare field by field, their constants with == again.                  *)
PyEq(a, b) ==
    IF a.t \in NumericTypes /\ b.t \in NumericTypes THEN a.v = b.v
    ELSE IF a.t = "code" /\ b.t = "code"
    THEN /\ a.co_code = b.co_code
         /\ a.co_names = b.co_names
         /\ a.co_varnames = b.co_varnames
         /\ Len(a.co_consts) = Len(b.co_consts)
         /\ \A k \in 1..Len(a.co_consts) : PyEq(a.co_consts[k], b.co_consts[k])
    ELSE a = b

---------------------------------------------------------------------------
(* make_table(): a defaultdict whose missing keys get len(table).  The     *)
(* model keeps the items [key, value] in insertion order.                  *)
make_table == <<>>

HasKey(tab, key) == \E k \in 1..Len(tab) : PyEq(tab[k].key, key)

ValueOf(tab, key) == tab[CHOOSE k \in 1..Len(tab) : PyEq(tab[k].key, key)].value

(* table[key]: the stored index, or len(table) stored under key.           *)
GetItem(tab, key) ==
    IF HasKey(tab, key)
    THEN [table |-> tab, index |-> ValueOf(tab, key)]
    ELSE [table |-> Append(tab, [key |-> key, value |-> Len(tab)]),
          index |-> Len(tab)]

(* collect(table): the keys sorted by their index.                         *)
collect(tab) ==
    LET items == SortSeq(tab, LAMBDA x, y : x.value < y.value)
    IN  [k \in 1..Len(items) |-> items[k].key]

---------------------------------------------------------------------------
(* bytes(xs) raises ValueError unless every element is in range(256).      *)
IsBytes(xs) == \A k \in 1..Len(xs) : xs[k] \in 0..255

(* encode truncating the high byte instead of leaving it to bytes().       *)
encodeWrapped(opcode, a) == <<opcode, a % 256, (a \div 256) % 256>>

encode(opcode, a) == <<opcode, a % 256, a \div 256>>

decode(bytecode, i) == bytecode[i + 2] + 256 * bytecode[i + 3]

(* take_arg(opcode)(a): bytes(encode(opcode, a)), or the ValueError.       *)
take_arg(opcode, a) ==
    LET e == encode(opcode, a)
    IN  [ok |-> IsBytes(e), code |-> e]

(* result[i:i+3] = e                                                       *)
SetSlice(result, i, e) ==
    [k \in 1..Len(result) |-> IF k - 1 \in i..(i + 2) THEN e[k - i] ELSE result[k]]

InstrLen(opcode) == IF opcode < HAVE_ARGUMENT THEN 1 ELSE 3

RECURSIVE FixFrom(_, _, _)
(* The while loop of fix_jumps from offset i on; FALSE in ok is the        *)
(* IndexError of decode on a cut-off instruction.                          *)
FixFrom(bytecode, i, result) ==
    IF i >= Len(bytecode) THEN [ok |-> TRUE, code |-> result]
    ELSE LET opcode == bytecode[i + 1]
             cut == opcode >= HAVE_ARGUMENT /\ i + 3 > Len(bytecode)
         IN  IF (opcode \in hasjabs \/ opcode = JUMP_BACK) /\ cut
             THEN [ok |-> FALSE, code |-> result]
             ELSE IF opcode \in hasjabs
             THEN FixFrom(bytecode, i + 3,
                          SetSlice(result, i,
                                   encode(opcode, i + 3 + decode(bytecode, i))))
             ELSE IF opcode = JUMP_BACK
             THEN FixFrom(bytecode, i + 3,
                          SetSlice(result, i,
                                   encode(JUMP_ABSOLUTE, i - decode(bytecode, i))))
             ELSE FixFrom(bytecode, i + InstrLen(opcode), result)

(* fix_jumps leaving the JUMP_BACK placeholders in place.                  *)
fix_jumpsKeepBack(bytecode) ==
    [ok |-> TRUE, code |-> bytecode]

(* fix_jumps(bytecode): bytes(result), or the error raised on the way.     *)
fix_jumps(bytecode) ==
    LET r == FixFrom(bytecode, 0, bytecode)
    IN  [ok |-> r.ok /\ IsBytes(r.code), code |-> r.code]

---------------------------------------------------------------------------
(* The AST, as the records ast.parse builds.  A Python list of nodes is    *)
(* the record List(<<...>>), so that `of` can tell it from a node.         *)
List(xs) == [kind |-> "list", elts |-> xs]
Num(n) == [kind |-> "Num", n |-> n]
Str(s) == [kind |-> "Str", s |-> s]
Name(id) == [kind |-> "Name", id |-> id]
BinOp(left, o, right) == [kind |-> "BinOp", left |-> left, op |-> o, right |-> right]
Call(func, args) == [kind |-> "Call", func |-> func, args |-> List(args)]
Expr(value) == [kind |-> "Expr", value |-> value]
Assign(targets, value) == [kind |-> "Assign", targets |-> targets, value |-> value]
If(test, body, orelse) ==
    [kind |-> "If", test |-> test, body |-> List(body), orelse |-> List(orelse)]
While(test, body) == [kind |-> "While", test |-> test, body |-> List(body)]
(* ast.arguments: args and kwonlyargs are lists, vararg and kwarg are      *)
(* None (here <<>>) or one name (here <<name>>).                           *)
arguments(args, vararg, kwonlyargs, kwarg) ==
    [args |-> args, vararg |-> vararg, kwonlyargs |-> kwonlyargs, kwarg |-> kwarg]
FunctionDef(name, args, decorator_list, body) ==
    [kind |-> "FunctionDef", name |-> name, args |-> args,
     decorator_list |-> decorator_list, body |-> List(body)]
Module(body) == [kind |-> "Module", body |-> List(body)]

(* CodeGen.ops2: the opcode of each supported operator class.              *)
ops2 ==
    [Add |-> BINARY_ADD, Sub |-> BINARY_SUBTRACT, Mult |-> BINARY_MULTIPLY,
     Div |-> BINARY_TRUE_DIVIDE, Mod |-> BINARY_MODULO, Pow |-> BINARY_POWER,
     LShift |-> BINARY_LSHIFT, RShift |-> BINARY_RSHIFT, BitOr |-> BINARY_OR,
     BitXor |-> BINARY_XOR, BitAnd |-> BINARY_AND,
     FloorDiv |-> BINARY_FLOOR_DIVIDE]

---------------------------------------------------------------------------
(* CodeGen.  A generator g is its three tables; a visit returns            *)
(* [ok, code, g]: the bytes emitted and the generator afterwards, ok FALSE *)
(* when the visit raised.                                                  *)
CodeGenInit ==
    [constants |-> make_table, names |-> make_table, varnames |-> make_table]

NoArg(opcode) == [ok |-> TRUE, code |-> <<opcode>>]

(* r + e: the bytes of an instruction e appended to a visit's result r.    *)
Plus(r, e) == [ok |-> r.ok /\ e.ok, code |-> r.code \o e.code, g |-> r.g]

(* r1 + r2, where r2 was visited after r1.                                 *)
Cat(r1, r2) == [ok |-> r1.ok /\ r2.ok, code |-> r1.code \o r2.code, g |-> r2.g]

Raise(g) == [ok |-> FALSE, code |-> <<>>, g |-> g]

load_const(g, constant) ==
    LET r == GetItem(g.constants, constant)
        e == take_arg(LOAD_CONST, r.index)
    IN  [ok |-> e.ok, code |-> e.code, g |-> [g EXCEPT !.constants = r.table]]

store(g, name) ==
    LET r == GetItem(g.names, StrV(name))
        e == take_arg(STORE_NAME, r.index)
    IN  [ok |-> e.ok, code |-> e.code, g |-> [g EXCEPT !.names = r.table]]

RECURSIVE of(_, _), JoinFrom(_, _, _), compile(_, _), compile_body(_, _)

(* b''.join(map(self.of, t)) from element k on, acc being the part done.   *)
JoinFrom(elts, k, acc) ==
    IF k > Len(elts) THEN acc
    ELSE JoinFrom(elts, k + 1, Cat(acc, of(elts[k], acc.g)))

visit_Module(t, g) == of(t.body, g)

(* visit_FunctionDef compiling the body with the enclosing generator's     *)
(* tables instead of a new CodeGen().                                      *)
visit_FunctionDefShared(t, g) ==
    IF t.args.args # <<>> THEN Raise(g)
    ELSE IF t.decorator_list # <<>> THEN Raise(g)
    ELSE LET code == compile_body(g, t.body)
             lc == load_const(g, code.co)
         IN  IF ~code.ok THEN Raise(g)
             ELSE Cat(Plus(lc, take_arg(MAKE_FUNCTION, 0)), store(lc.g, t.name))

visit_FunctionDef(t, g) ==
    IF t.args.args # <<>> THEN Raise(g)               \* assert not t.args.args
    ELSE IF t.decorator_list # <<>> THEN Raise(g)     \* assert not t.decorator_list
    ELSE LET code == compile_body(CodeGenInit, t.body)
             lc == load_const(g, code.co)
         IN  IF ~code.ok THEN Raise(g)
             ELSE Cat(Plus(lc, take_arg(MAKE_FUNCTION, 0)), store(lc.g, t.name))

(* visit_If with the conditional jump measured without the JUMP_FORWARD.   *)
visit_IfShort(t, g) ==
    LET orelse == of(t.orelse, g)
        then == of(t.body, orelse.g)
        body == Plus(then, take_arg(JUMP_FORWARD, Len(orelse.code)))
        test == of(t.test, body.g)
    IN  Cat(Cat(Plus(test, take_arg(POP_JUMP_IF_FALSE, Len(then.code))),
                [body EXCEPT !.g = test.g]),
            [orelse EXCEPT !.g = test.g])

visit_If(t, g) ==
    LET orelse == of(t.orelse, g)
        body == Plus(of(t.body, orelse.g), take_arg(JUMP_FORWARD, Len(orelse.code)))
        test == of(t.test, body.g)
    IN  Cat(Cat(Plus(test, take_arg(POP_JUMP_IF_FALSE, Len(body.code))),
                [body EXCEPT !.g = test.g]),
            [orelse EXCEPT !.g = test.g])

(* visit_While with the backward jump measured from after the test.        *)
visit_WhileShort(t, g) ==
    LET test == of(t.test, g)
        body == of(t.body, test.g)
        branch == take_arg(POP_JUMP_IF_FALSE, Len(body.code) + 3)
        inside == Cat(Plus(test, branch), body)
        loop == Plus(inside, take_arg(JUMP_BACK, Len(body.code) + 3))
    IN  Plus([loop EXCEPT !.ok = loop.ok /\ take_arg(SETUP_LOOP, Len(loop.code)).ok,
                          !.code = take_arg(SETUP_LOOP, Len(loop.code)).code \o loop.code],
             NoArg(POP_BLOCK))

visit_While(t, g) ==
    LET test == of(t.test, g)
        body == of(t.body, test.g)
        branch == take_arg(POP_JUMP_IF_FALSE, Len(body.code) + 3)
        inside == Cat(Plus(test, branch), body)
        loop == Plus(inside, take_arg(JUMP_BACK, Len(inside.code)))
        setup == take_arg(SETUP_LOOP, Len(loop.code))
    IN  Plus([loop EXCEPT !.ok = setup.ok /\ loop.ok,
                          !.code = setup.code \o loop.code],
             NoArg(POP_BLOCK))

visit_Expr(t, g) == Plus(of(t.value, g), NoArg(POP_TOP))

(* visit_Assign without the DUP_TOP.                                       *)
visit_AssignNoDup(t, g) ==
    IF ~(Len(t.targets) = 1 /\ t.targets[1].kind = "Name") THEN Raise(g)
    ELSE LET value == of(t.value, g)
         IN  Cat(value, store(value.g, t.targets[1].id))

visit_Assign(t, g) ==
    IF ~(Len(t.targets) = 1 /\ t.targets[1].kind = "Name") THEN Raise(g)
    ELSE LET value == Plus(of(t.value, g), NoArg(DUP_TOP))
         IN  Cat(value, store(value.g, t.targets[1].id))

visit_Call(t, g) ==
    LET func == of(t.func, g)
        args == of(t.args, func.g)
    IN  Plus(Cat(func, args), take_arg(CALL_FUNCTION, Len(t.args.elts)))

visit_BinOp(t, g) ==
    LET left == of(t.left, g)
        right == of(t.right, left.g)
    IN  IF t.op \notin DOMAIN ops2 THEN Raise(g)      \* KeyError
        ELSE Plus(Cat(left, right), NoArg(ops2[t.op]))

visit_Num(t, g) == load_const(g, t.n)

visit_Str(t, g) == load_const(g, t.s)

visit_Name(t, g) ==
    LET r == GetItem(g.names, StrV(t.id))
        e == take_arg(LOAD_NAME, r.index)
    IN  [ok |-> e.ok, code |-> e.code, g |-> [g EXCEPT !.names = r.table]]

(* NodeVisitor.visit: dispatch on the node's class; a class without a      *)
(* visit_ method yields None, which the caller cannot concatenate.         *)
visit(t, g) ==
    CASE t.kind = "Module" -> visit_Module(t, g)
      [] t.kind = "FunctionDef" -> visit_FunctionDef(t, g)
      [] t.kind = "If" -> visit_If(t, g)
      [] t.kind = "While" -> visit_While(t, g)
      [] t.kind = "Expr" -> visit_Expr(t, g)
      [] t.kind = "Assign" -> visit_Assign(t, g)
      [] t.kind = "Call" -> visit_Call(t, g)
      [] t.kind = "BinOp" -> visit_BinOp(t, g)
      [] t.kind = "Num" -> visit_Num(t, g)
      [] t.kind = "Str" -> visit_Str(t, g)
      [] t.kind = "Name" -> visit_Name(t, g)
      [] OTHER -> Raise(g)

of(t, g) ==
    IF t.kind = "list"
    THEN JoinFrom(t.elts, 1, [ok |-> TRUE, code |-> <<>>, g |-> g])
    ELSE visit(t, g)

(* compile without the closing LOAD_CONST None and RETURN_VALUE.           *)
compileNoReturn(g, t) ==
    LET bytecode == of(t, g)
        fixedcode == fix_jumps(bytecode.code)
    IN  [ok |-> bytecode.ok /\ fixedcode.ok,
         co |-> [t |-> "code", co_argcount |-> 0, co_kwonlyargcount |-> 0,
                 co_nlocals |-> 0, co_stacksize |-> 10, co_flags |-> 64,
                 co_code |-> fixedcode.code,
                 co_consts |-> collect(bytecode.g.constants),
                 co_names |-> collect(bytecode.g.names),
                 co_varnames |-> collect(bytecode.g.varnames)]]

(* CodeGen.compile: [ok, co], co the code object when ok.                  *)
compile(g, t) ==
    LET body == of(t, g)
        bytecode == Plus(Cat(body, load_const(body.g, NoneV)), NoArg(RETURN_VALUE))
        fixedcode == fix_jumps(bytecode.code)
    IN  [ok |-> bytecode.ok /\ fixedcode.ok,
         co |-> [t |-> "code", co_argcount |-> 0, co_kwonlyargcount |-> 0,
                 co_nlocals |-> 0, co_stacksize |-> 10, co_flags |-> 64,
                 co_code |-> fixedcode.code,
                 co_consts |-> collect(bytecode.g.constants),
                 co_names |-> collect(bytecode.g.names),
                 co_varnames |-> collect(bytecode.g.varnames)]]

(* CodeGen.compile_body: None opens the constants unless the body starts   *)
(* with a doc comment.  body[0] of an empty body is an IndexError.         *)
compile_body(g, body) ==
    IF body.elts = <<>> THEN [ok |-> FALSE, co |-> NoneV]
    ELSE LET t == body.elts[1]
             isDoc == t.kind = "Expr" /\ t.value.kind = "Str"
         IN  compile(IF isDoc THEN g
                     ELSE [g EXCEPT !.constants = GetItem(g.constants, NoneV).table],
                     body)

(* bytecomp(t, f_globals): the function's code object.                     *)
bytecomp(t) == compile(CodeGenInit, t)

---------------------------------------------------------------------------
(* The inputs: modules built from the statements of the file's own         *)
(* example, nested up to MaxDepth times.                                   *)
MaxDepth == 2

A_ == Name("a")
AssignSum == Assign(<<A_>>, BinOp(Num(IntV(2)), "Add", Num(IntV(3))))
AssignDec == Assign(<<A_>>, BinOp(A_, "Sub", Num(IntV(1))))
PrintCall == Expr(Call(Name("print"), <<A_, Num(IntV(137))>>))
DocComment == Expr(Str(StrV("doc comment")))
Simple == {AssignSum, AssignDec, PrintCall, DocComment}
CountDown == While(A_, <<AssignDec>>)

NoArguments == arguments(<<>>, <<>>, <<>>, <<>>)
(* The parameter lists and decorator lists a def can carry.                *)
Signatures ==
    {[args |-> NoArguments, decorator_list |-> <<>>],
     [args |-> arguments(<<"x">>, <<>>, <<>>, <<>>), decorator_list |-> <<>>],
     [args |-> arguments(<<>>, <<"rest">>, <<>>, <<>>), decorator_list |-> <<>>],
     [args |-> arguments(<<>>, <<>>, <<"k">>, <<>>), decorator_list |-> <<>>],
     [args |-> arguments(<<>>, <<>>, <<>>, <<"kw">>), decorator_list |-> <<>>],
     [args |-> NoArguments, decorator_list |-> <<Name("deco")>>]}

(* The statement lists that nest the list b one level deeper or put a      *)
(* statement beside it.                                                    *)
Wraps(b) ==
    {<<While(A_, b)>>,
     <<If(BinOp(A_, "Sub", Num(IntV(1))), b, <<>>)>>,
     <<If(A_, b, <<PrintCall>>)>>,
     <<If(A_, <<AssignDec>>, b)>>}
    \cup {<<FunctionDef("f", sig.args, sig.decorator_list, b)>> : sig \in Signatures}
    \cup {<<s>> \o b : s \in Simple}
    \cup {b \o <<s>> : s \in Simple}

RECURSIVE Bodies(_)
Bodies(d) ==
    IF d = 0 THEN {<<s>> : s \in Simple \cup {CountDown}}
    ELSE LET inner == Bodies(d - 1)
         IN  inner \cup UNION {Wraps(b) : b \in inner}

Programs == {Module(b) : b \in Bodies(MaxDepth)}

NoArtifact == [ok |-> FALSE, co |-> NoneV]

(* The variables a specification does not use stay at these values.        *)
IdleCompile == tree = Module(<<>>) /\ artifact = NoArtifact
IdleTable == table = <<>> /\ requested = <<>> /\ returned = <<>> /\ collected = <<>>
IdleEncoder == arg = 0 /\ enc = <<>> /\ stream = <<>> /\ fixed = <<>>
IdleRun == pc = 0 /\ depth = 0 /\ blocks = <<>> /\ iters = 0

tableVars == <<table, requested, returned, collected>>
encoderVars == <<arg, enc, stream, fixed>>
runVars == <<pc, depth, blocks, iters>>

---------------------------------------------------------------------------
(* Compiling one module: bytecomp(tree).                                   *)
InitCompile ==
    /\ tree \in Programs
    /\ phase = "ast"
    /\ artifact = NoArtifact
    /\ IdleTable /\ IdleEncoder /\ IdleRun

Compile ==
    /\ phase = "ast"
    /\ artifact' = bytecomp(tree)
    /\ phase' = IF artifact'.ok THEN "compiled" ELSE "failed"
    /\ UNCHANGED <<tree, tableVars, encoderVars, runVars>>

SpecCompile == InitCompile /\ [][Compile]_vars

---------------------------------------------------------------------------
(* Reading a finished byte string.                                         *)
OpAt(code, i) == code[i + 1]

RECURSIVE StartsFrom(_, _)
(* The offsets at which a left-to-right scan from i starts an instruction. *)
StartsFrom(code, i) ==
    IF i >= Len(code) THEN {}
    ELSE {i} \cup StartsFrom(code, i + (IF code[i + 1] < HAVE_ARGUMENT THEN 1 ELSE 3))

Starts(code) == StartsFrom(code, 0)

RECURSIVE AllCode(_)
(* A code object and every code object nested in its constants.            *)
AllCode(co) ==
    {co} \cup UNION {AllCode(co.co_consts[k]) :
                       k \in {j \in 1..Len(co.co_consts) : co.co_consts[j].t = "code"}}

(* Where the pieces of a unit lie.  Size is the number of bytes a subtree  *)
(* emits, which does not depend on the tables.                             *)
Size(t) == Len(of(t, CodeGenInit).code)

Prefix(elts, k) == List(SubSeq(elts, 1, k - 1))

RECURSIVE Spans(_, _)
(* The loops and conditionals of one unit whose subtree t starts at byte   *)
(* base, each with the addresses of its parts.  A def is another unit.     *)
Spans(t, base) ==
    CASE t.kind \in {"list"} ->
           UNION {Spans(t.elts[k], base + Size(Prefix(t.elts, k))) :
                    k \in 1..Len(t.elts)}
      [] t.kind = "Module" -> Spans(t.body, base)
      [] t.kind = "While" ->
           LET testAt == base + 3
               bodyAt == testAt + Size(t.test) + 3
           IN  {[kind |-> "While", setup |-> base, test |-> testAt,
                 branch |-> bodyAt - 3, back |-> bodyAt + Size(t.body),
                 after |-> bodyAt + Size(t.body) + 3]}
               \cup Spans(t.body, bodyAt)
      [] t.kind = "If" ->
           LET thenAt == base + Size(t.test) + 3
               skipAt == thenAt + Size(t.body)
           IN  {[kind |-> "If", branch |-> thenAt - 3, skip |-> skipAt,
                 orelse |-> skipAt + 3, after |-> skipAt + 3 + Size(t.orelse)]}
               \cup Spans(t.body, thenAt) \cup Spans(t.orelse, skipAt + 3)
      [] OTHER -> {}

RECURSIVE CountWhile(_)
(* The number of While nodes of one unit.                                  *)
CountWhile(t) ==
    CASE t.kind = "list" ->
           IF t.elts = <<>> THEN 0
           ELSE CountWhile(t.elts[1]) + CountWhile(List(Tail(t.elts)))
      [] t.kind = "Module" -> CountWhile(t.body)
      [] t.kind = "While" -> 1 + CountWhile(t.body)
      [] t.kind = "If" -> CountWhile(t.body) + CountWhile(t.orelse)
      [] OTHER -> 0

RECURSIVE FunctionBodies(_)
(* The bodies of every def in t, nested ones included.                     *)
FunctionBodies(t) ==
    CASE t.kind = "list" -> UNION {FunctionBodies(t.elts[k]) : k \in 1..Len(t.elts)}
      [] t.kind = "Module" -> FunctionBodies(t.body)
      [] t.kind = "While" -> FunctionBodies(t.body)
      [] t.kind = "If" -> FunctionBodies(t.body) \cup FunctionBodies(t.orelse)
      [] t.kind = "FunctionDef" -> {t.body} \cup FunctionBodies(t.body)
      [] OTHER -> {}

(* The units of the compiled module: the module with its code object, and  *)
(* each def's body with the code object compile_body makes of it.          *)
Units ==
    {[ast |-> tree, co |-> artifact.co]}
    \cup {[ast |-> b, co |-> compile_body(CodeGenInit, b).co] : b \in FunctionBodies(tree)}

---------------------------------------------------------------------------
(* Renaming one scope of a module apart from the other: every identifier   *)
(* and literal of the chosen scope ("outer": outside every def, "inner":   *)
(* inside some def) is replaced by a fresh one.  A def's own name belongs  *)
(* to the scope the def statement is in.                                   *)
RenamedId(id) == id \o "_r"
RenamedValue(c) ==
    IF c.t = "str" THEN StrV(c.s \o "_r") ELSE [c EXCEPT !.v = @ + 1000]

RECURSIVE Rename(_, _, _)
Rename(t, scope, inDef) ==
    LET here == (scope = "inner") = inDef
    IN  CASE t.kind = "list" ->
               List([k \in 1..Len(t.elts) |-> Rename(t.elts[k], scope, inDef)])
          [] t.kind = "Module" -> [t EXCEPT !.body = Rename(@, scope, inDef)]
          [] t.kind = "FunctionDef" ->
               [t EXCEPT !.name = IF here THEN RenamedId(@) ELSE @,
                         !.body = Rename(@, scope, TRUE)]
          [] t.kind = "If" ->
               [t EXCEPT !.test = Rename(@, scope, inDef),
                         !.body = Rename(@, scope, inDef),
                         !.orelse = Rename(@, scope, inDef)]
          [] t.kind = "While" ->
               [t EXCEPT !.test = Rename(@, scope, inDef),
                         !.body = Rename(@, scope, inDef)]
          [] t.kind = "Expr" -> [t EXCEPT !.value = Rename(@, scope, inDef)]
          [] t.kind = "Assign" ->
               [t EXCEPT !.targets = [k \in 1..Len(@) |-> Rename(@[k], scope, inDef)],
                         !.value = Rename(@, scope, inDef)]
          [] t.kind = "Call" ->
               [t EXCEPT !.func = Rename(@, scope, inDef),
                         !.args = Rename(@, scope, inDef)]
          [] t.kind = "BinOp" ->
               [t EXCEPT !.left = Rename(@, scope, inDef),
                         !.right = Rename(@, scope, inDef)]
          [] t.kind = "Num" -> IF here THEN [t EXCEPT !.n = RenamedValue(@)] ELSE t
          [] t.kind = "Str" -> IF here THEN [t EXCEPT !.s = RenamedValue(@)] ELSE t
          [] t.kind = "Name" -> IF here THEN [t EXCEPT !.id = RenamedId(@)] ELSE t
          [] OTHER -> t

CodeIndices(co) == {k \in 1..Len(co.co_consts) : co.co_consts[k].t = "code"}

---------------------------------------------------------------------------
(* C1: in every unit of a compiled module, each while loop's backward jump *)
(* is, after fix_jumps, a JUMP_ABSOLUTE at an instruction boundary whose   *)
(* argument is the address of the first byte of the loop's test, the byte  *)
(* after the loop's SETUP_LOOP; and the unit's stream holds as many        *)
(* JUMP_ABSOLUTE instructions as the unit has While nodes.                 *)
C1_BackwardJumpTargetsTest ==
    phase = "compiled" =>
      \A u \in Units :
        LET code == u.co.co_code
            loops == {w \in Spans(u.ast, 0) : w.kind = "While"}
        IN  /\ \A w \in loops :
                 /\ w.back \in Starts(code)
                 /\ OpAt(code, w.back) = JUMP_ABSOLUTE
                 /\ decode(code, w.back) = w.test
                 /\ OpAt(code, w.setup) = SETUP_LOOP
                 /\ w.test = w.setup + 3
            /\ Cardinality({i \in Starts(code) : OpAt(code, i) = JUMP_ABSOLUTE})
                 = CountWhile(u.ast)

(* A compiled unit with a loop nested in a loop, the outer one not at      *)
(* address 0.                                                              *)
C1_Witness ==
    /\ phase = "compiled"
    /\ \E v, w \in Spans(tree, 0) :
         /\ v.kind = "While" /\ w.kind = "While"
         /\ 0 < v.setup /\ v.setup < w.setup /\ w.after < v.after

(* C2: in every unit of a compiled module, each if statement's             *)
(* POP_JUMP_IF_FALSE holds, after fix_jumps, the absolute address of the   *)
(* first byte of the else-branch's span, and the JUMP_FORWARD ending the   *)
(* then-branch, taken relative to the address after itself, lands on the   *)
(* first byte after the else-branch's span (the same byte when the         *)
(* else-branch is empty).                                                  *)
C2_IfJumpsLandOnElseAndAfter ==
    phase = "compiled" =>
      \A u \in Units :
        LET code == u.co.co_code
        IN  \A c \in {x \in Spans(u.ast, 0) : x.kind = "If"} :
              /\ {c.branch, c.skip} \subseteq Starts(code)
              /\ OpAt(code, c.branch) = POP_JUMP_IF_FALSE
              /\ decode(code, c.branch) = c.orelse
              /\ OpAt(code, c.skip) = JUMP_FORWARD
              /\ c.skip + 3 + decode(code, c.skip) = c.after

(* A compiled unit with an if without else nested in a loop or an if, and  *)
(* an if with a non-empty else.                                            *)
C2_Witness ==
    /\ phase = "compiled"
    /\ \E c, d \in Spans(tree, 0) :
         /\ c.kind = "If" /\ d.kind = "If"
         /\ c.orelse = c.after /\ c.branch > 3
         /\ d.orelse < d.after

(* C3: no instruction of a compiled module's stream, nor of the stream of  *)
(* any code object nested in its constants, has the placeholder opcode 255 *)
(* when the stream is read instruction by instruction.                     *)
C3_NoPlaceholderLeft ==
    phase = "compiled" =>
      \A co \in AllCode(artifact.co) :
        \A i \in Starts(co.co_code) : OpAt(co.co_code, i) # JUMP_BACK

(* A compiled module whose nested code object has a loop, hence a          *)
(* rewritten placeholder, and a byte 255 nowhere at an instruction start.  *)
C3_Witness ==
    /\ phase = "compiled"
    /\ \E co \in AllCode(artifact.co) \ {artifact.co} :
         \E i \in Starts(co.co_code) : OpAt(co.co_code, i) = JUMP_ABSOLUTE
    /\ \E i \in Starts(artifact.co.co_code) :
         OpAt(artifact.co.co_code, i) = JUMP_ABSOLUTE

RECURSIVE OpcodesFrom(_, _)
(* The opcodes of a stream's instructions, in order.                       *)
OpcodesFrom(code, i) ==
    IF i >= Len(code) THEN <<>>
    ELSE <<code[i + 1]>>
         \o OpcodesFrom(code, i + (IF code[i + 1] < HAVE_ARGUMENT THEN 1 ELSE 3))

RECURSIVE Defs(_)
(* Every FunctionDef node of t, nested ones included.                      *)
Defs(t) ==
    CASE t.kind = "list" -> UNION {Defs(t.elts[k]) : k \in 1..Len(t.elts)}
      [] t.kind = "Module" -> Defs(t.body)
      [] t.kind = "While" -> Defs(t.body)
      [] t.kind = "If" -> Defs(t.body) \cup Defs(t.orelse)
      [] t.kind = "FunctionDef" -> {t} \cup Defs(t.body)
      [] OTHER -> {}

HasParametersOrDecorators(d) ==
    \/ d.args.args # <<>> \/ d.args.vararg # <<>>
    \/ d.args.kwonlyargs # <<>> \/ d.args.kwarg # <<>>
    \/ d.decorator_list # <<>>

(* C5: a module holding a def with any kind of parameter or a decorator    *)
(* is rejected: compile produces no artifact for it.                       *)
C5_ParametersRejected ==
    (\E d \in Defs(tree) : HasParametersOrDecorators(d)) => phase # "compiled"

(* C6, as stated: a = 2 + 3 compiles to the constants [2, 3], the names    *)
(* ["a"] and the seven instructions load-const, load-const, binary-add,    *)
(* dup, store, load-const, return, 10 bytes long.                          *)
C6_AsStated ==
    (tree = Module(<<AssignSum>>) /\ phase # "ast") =>
      /\ phase = "compiled"
      /\ artifact.co.co_consts = <<IntV(2), IntV(3)>>
      /\ artifact.co.co_names = <<StrV("a")>>
      /\ OpcodesFrom(artifact.co.co_code, 0)
           = <<LOAD_CONST, LOAD_CONST, BINARY_ADD, DUP_TOP, STORE_NAME,
               LOAD_CONST, RETURN_VALUE>>
      /\ Len(artifact.co.co_code) = 10

(* C6, amended: a = 2 + 3 compiles to the constants [2, 3, None], the      *)
(* names ["a"] and the same seven instructions, which are 15 bytes long    *)
(* (four of them carry a two-byte argument), the loads taking constants    *)
(* 0, 1 and 2 and the store taking name 0.                                 *)
C6_AssignSumArtifact ==
    (tree = Module(<<AssignSum>>) /\ phase # "ast") =>
      /\ phase = "compiled"
      /\ artifact.co.co_consts = <<IntV(2), IntV(3), NoneV>>
      /\ artifact.co.co_names = <<StrV("a")>>
      /\ OpcodesFrom(artifact.co.co_code, 0)
           = <<LOAD_CONST, LOAD_CONST, BINARY_ADD, DUP_TOP, STORE_NAME,
               LOAD_CONST, RETURN_VALUE>>
      /\ Len(artifact.co.co_code) = 15
      /\ <<decode(artifact.co.co_code, 0), decode(artifact.co.co_code, 3),
           decode(artifact.co.co_code, 8), decode(artifact.co.co_code, 11)>>
           = <<0, 1, 0, 2>>

(* The module a = 2 + 3 has been compiled.                                 *)
C6_Witness == tree = Module(<<AssignSum>>) /\ phase = "compiled"

(* C8: the tables of a def's body are disjoint from the enclosing unit's.  *)
(* Renaming every identifier and literal inside the defs leaves the        *)
(* module's names and varnames as they are and its constants too, but for  *)
(* the code objects, which stay at their indices: nothing interned for an  *)
(* inner body enters or shifts the enclosing tables, and a def adds only   *)
(* its code object and its own name.  Renaming everything outside the defs *)
(* leaves every nested code object as it is: an inner body's indices come  *)
(* from its own first-use order.                                           *)
C8_NestedTablesDisjoint ==
    phase = "compiled" =>
      LET co == artifact.co
          inner == bytecomp(Rename(tree, "inner", FALSE))
          outer == bytecomp(Rename(tree, "outer", FALSE))
      IN  /\ inner.ok /\ outer.ok
          /\ inner.co.co_names = co.co_names
          /\ inner.co.co_varnames = co.co_varnames
          /\ Len(inner.co.co_consts) = Len(co.co_consts)
          /\ CodeIndices(inner.co) = CodeIndices(co)
          /\ \A k \in (1..Len(co.co_consts)) \ CodeIndices(co) :
               inner.co.co_consts[k] = co.co_consts[k]
          /\ Len(outer.co.co_consts) = Len(co.co_consts)
          /\ \A k \in CodeIndices(co) : outer.co.co_consts[k] = co.co_consts[k]

(* A compiled module that uses the name a at one index outside a def and   *)
(* at another index inside it.                                             *)
C8_Witness ==
    /\ phase = "compiled"
    /\ \E k \in CodeIndices(artifact.co) :
         \E i \in 1..Len(artifact.co.co_names) :
           \E j \in 1..Len(artifact.co.co_consts[k].co_names) :
             /\ artifact.co.co_names[i] = StrV("a")
             /\ artifact.co.co_consts[k].co_names[j] = StrV("a")
             /\ i # j

(* C10: in every code object of a compiled module each jump lands on an    *)
(* instruction boundary inside the stream (the argument of                 *)
(* POP_JUMP_IF_FALSE and JUMP_ABSOLUTE, the address after the instruction  *)
(* plus the argument of JUMP_FORWARD and SETUP_LOOP), no instruction is    *)
(* cut off, every instruction but a return is followed by another, and the *)
(* only RETURN_VALUE is the last byte, after a LOAD_CONST of None.         *)
C10_JumpsLandOnInstructions ==
    phase = "compiled" =>
      \A co \in AllCode(artifact.co) :
        LET code == co.co_code
            n == Len(code)
            S == Starts(code)
        IN  /\ \A i \in S :
                 /\ i + (IF OpAt(code, i) < HAVE_ARGUMENT THEN 1 ELSE 3) <= n
                 /\ OpAt(code, i) \in {POP_JUMP_IF_FALSE, JUMP_ABSOLUTE}
                      => decode(code, i) \in S
                 /\ OpAt(code, i) \in {JUMP_FORWARD, SETUP_LOOP}
                      => i + 3 + decode(code, i) \in S
                 /\ OpAt(code, i) = RETURN_VALUE <=> i = n - 1
            /\ n >= 4 /\ n - 4 \in S
            /\ OpAt(code, n - 4) = LOAD_CONST
            /\ co.co_consts[decode(code, n - 4) + 1] = NoneV

(* A compiled module whose last statement is an if without else, so its    *)
(* conditional jump and its JUMP_FORWARD both land on the closing          *)
(* LOAD_CONST, and which holds a loop.                                     *)
C10_Witness ==
    /\ phase = "compiled"
    /\ \E c \in Spans(tree, 0) :
         /\ c.kind = "If"
         /\ decode(artifact.co.co_code, c.branch) = Len(artifact.co.co_code) - 4
         /\ c.after = Len(artifact.co.co_code) - 4
    /\ \E w \in Spans(tree, 0) : w.kind = "While"

---------------------------------------------------------------------------
(* One intern table under a sequence of lookups.                           *)
MaxLookups == 3

Keys == {IntV(1), FloatV(1), BoolV(1), IntV(2), StrV("a"), NoneV}

InitTable ==
    /\ phase = "table"
    /\ table = make_table
    /\ requested = <<>> /\ returned = <<>> /\ collected = <<>>
    /\ IdleCompile /\ IdleEncoder /\ IdleRun

(* table[key], as load_const, store and visit_Name do it.                  *)
Lookup(key) ==
    /\ phase = "table"
    /\ Len(requested) < MaxLookups
    /\ table' = GetItem(table, key).table
    /\ requested' = Append(requested, key)
    /\ returned' = Append(returned, GetItem(table, key).index)
    /\ UNCHANGED <<phase, collected, tree, artifact, encoderVars, runVars>>

Collect ==
    /\ phase = "table"
    /\ collected' = collect(table)
    /\ UNCHANGED <<phase, table, requested, returned, tree, artifact,
                   encoderVars, runVars>>

NextTable == (\E key \in Keys : Lookup(key)) \/ Collect

SpecTable == InitTable /\ [][NextTable]_vars

RECURSIVE FirstRequests(_)
(* The requested values without repetitions, in first-request order.       *)
FirstRequests(reqs) ==
    IF reqs = <<>> THEN <<>>
    ELSE LET front == FirstRequests(SubSeq(reqs, 1, Len(reqs) - 1))
             last == reqs[Len(reqs)]
         IN  IF \E k \in 1..Len(front) : front[k] = last THEN front
             ELSE Append(front, last)

(* C4: after any sequence of lookups the indices handed out are exactly    *)
(* 0..n-1 without gaps or duplicates, a value asked for again gets its     *)
(* earlier index, two distinct values (1, 1.0 and True are distinct) never *)
(* share an index, and collect returns the n values in the order they were *)
(* first requested.                                                        *)
C4_InternTableContract ==
    /\ {table[k].value : k \in 1..Len(table)} = 0..(Len(table) - 1)
    /\ \A i, j \in 1..Len(requested) :
         requested[i] = requested[j] => returned[i] = returned[j]
    /\ \A i, j \in 1..Len(requested) :
         requested[i] # requested[j] => returned[i] # returned[j]
    /\ collect(table) = FirstRequests(requested)

---------------------------------------------------------------------------
(* The encoder and the jump resolution pass on their own inputs: an        *)
(* argument on either side of the 16-bit limit, and a stream of MaxPad or  *)
(* fewer one-byte instructions followed by one jump.                       *)
MaxPad == 3

ArgLimit == 256 * 256
Neighbourhood(n) == {m \in (n - 3)..(n + 3) : m >= 0}
ArgSamples == Neighbourhood(0) \cup Neighbourhood(256) \cup Neighbourhood(ArgLimit)
RawSamples == {a \in ArgSamples \cup Neighbourhood(ArgLimit - 3) : a < ArgLimit}
JumpOpcodes == {POP_JUMP_IF_FALSE, JUMP_BACK, JUMP_FORWARD}

Pad(n) == [k \in 1..n |-> POP_TOP]

InitEncoder ==
    /\ phase = "input"
    /\ arg \in ArgSamples
    /\ \E n \in 0..MaxPad, opcode \in JumpOpcodes, raw \in RawSamples :
         stream = Pad(n) \o <<opcode, raw % 256, raw \div 256>>
    /\ enc = <<>> /\ fixed = <<>>
    /\ IdleCompile /\ IdleTable /\ IdleRun

(* op.LOAD_CONST(arg), that is take_arg(opcode)(arg).                      *)
Encode ==
    /\ phase = "input"
    /\ enc' = take_arg(LOAD_CONST, arg)
    /\ phase' = "encoded"
    /\ UNCHANGED <<arg, stream, fixed, tree, artifact, tableVars, runVars>>

FixJumps ==
    /\ phase = "encoded"
    /\ fixed' = fix_jumps(stream)
    /\ phase' = "fixed"
    /\ UNCHANGED <<arg, enc, stream, tree, artifact, tableVars, runVars>>

NextEncoder == Encode \/ FixJumps

SpecEncoder == InitEncoder /\ [][NextEncoder]_vars

(* The jump of the stream: its offset, opcode and raw argument.            *)
JumpAt == Len(stream) - 3
JumpTarget ==
    IF OpAt(stream, JumpAt) = JUMP_BACK THEN JumpAt - decode(stream, JumpAt)
    ELSE JumpAt + 3 + decode(stream, JumpAt)

(* C7: an argument in 0..65535 is encoded as its low byte then its high    *)
(* byte and decode gives it back; take_arg fails on an argument of 65536   *)
(* or more; and fix_jumps either fails, which it does whenever the address *)
(* it computes is outside 0..65535, or leaves a jump whose two argument    *)
(* bytes decode to exactly that address, never to a wrapped one.           *)
C7_ArgumentsNeverWrap ==
    /\ phase \in {"encoded", "fixed"} =>
         /\ arg < ArgLimit =>
              /\ enc.ok
              /\ enc.code = <<LOAD_CONST, arg % 256, arg \div 256>>
              /\ decode(enc.code, 0) = arg
         /\ arg >= ArgLimit => ~enc.ok
    /\ (phase = "fixed" /\ OpAt(stream, JumpAt) # JUMP_FORWARD) =>
         /\ JumpTarget \notin 0..(ArgLimit - 1) => ~fixed.ok
         /\ fixed.ok =>
              /\ Len(fixed.code) = Len(stream)
              /\ decode(fixed.code, JumpAt) = JumpTarget
              /\ fixed.code[JumpAt + 2] \in 0..255
              /\ fixed.code[JumpAt + 3] \in 0..255

(* take_arg has refused the argument 65536, and fix_jumps has refused a    *)
(* conditional jump of raw argument 65535, which fits, at offset 1,        *)
(* whose address 65539 does not.                                           *)
C7_Witness ==
    /\ phase = "fixed"
    /\ arg = ArgLimit /\ ~enc.ok
    /\ OpAt(stream, JumpAt) = POP_JUMP_IF_FALSE
    /\ JumpAt = 1 /\ decode(stream, JumpAt) = ArgLimit - 1
    /\ ~fixed.ok

---------------------------------------------------------------------------
(* Running a compiled module on the interpreter, as the file's last line   *)
(* does: only the evaluation stack's depth and the block stack are kept,   *)
(* and either outcome of a test is possible.                               *)
MaxIter == 12

RunPrograms ==
    {Module(<<AssignSum>>),
     Module(<<CountDown>>),
     Module(<<AssignSum, CountDown>>),
     Module(<<AssignSum, CountDown, PrintCall>>),
     Module(<<If(A_, <<AssignDec>>, <<PrintCall>>)>>)}

InitRun ==
    /\ tree \in RunPrograms
    /\ phase = "ast"
    /\ artifact = NoArtifact
    /\ IdleTable /\ IdleEncoder /\ IdleRun

(* The instruction at pc is executed.                                      *)
Step ==
    /\ phase = "compiled"
    /\ LET code == artifact.co.co_code
           o == OpAt(code, pc)
           a == IF o < HAVE_ARGUMENT THEN 0 ELSE decode(code, pc)
           next == pc + (IF o < HAVE_ARGUMENT THEN 1 ELSE 3)
       IN  /\ o = JUMP_ABSOLUTE => iters < MaxIter
           /\ depth' =
                CASE o \in {LOAD_CONST, LOAD_NAME, DUP_TOP} -> depth + 1
                  [] o \in {STORE_NAME, POP_TOP, POP_JUMP_IF_FALSE, RETURN_VALUE}
                       -> depth - 1
                  [] o \in {ops2[k] : k \in DOMAIN ops2} -> depth - 1
                  [] o = CALL_FUNCTION -> depth - a
                  [] o = POP_BLOCK -> blocks[Len(blocks)]
                  [] OTHER -> depth
           /\ blocks' =
                CASE o = SETUP_LOOP -> Append(blocks, depth)
                  [] o = POP_BLOCK -> SubSeq(blocks, 1, Len(blocks) - 1)
                  [] OTHER -> blocks
           /\ iters' = IF o = JUMP_ABSOLUTE THEN iters + 1 ELSE iters
           /\ phase' = IF o = RETURN_VALUE THEN "returned" ELSE phase
           /\ pc' \in
                CASE o = POP_JUMP_IF_FALSE -> {next, a}
                  [] o = JUMP_ABSOLUTE -> {a}
                  [] o = JUMP_FORWARD -> {next + a}
                  [] OTHER -> {next}
    /\ UNCHANGED <<tree, artifact, tableVars, encoderVars>>

NextRun == Compile \/ Step

SpecRun == InitRun /\ [][NextRun]_vars

(* C9: an assignment statement is stack-neutral, so when the interpreter   *)
(* reaches the end of a module's leading assignment the stack is as deep   *)
(* as before it, empty; and however often a loop around an assignment      *)
(* runs, the depth never exceeds the code object's co_stacksize.           *)
C9_AssignmentStackNeutral ==
    phase = "compiled" =>
      /\ (tree.body.elts[1].kind = "Assign" /\ pc = Size(tree.body.elts[1]))
           => depth = 0
      /\ depth <= artifact.co.co_stacksize

=============================================================================
